---- MODULE Spec2Model ----
(***************************************************************************)
(* Model of the Vault secret helper (src/unnamed/part_000): getSecret,     *)
(* fetchFromVault, cacheKey, clearVaultCache and the module-level cache.   *)
(*                                                                         *)
(* JavaScript values are tagged records, so that String(), truthiness,     *)
(* `??` and property access are computed the way the runtime computes      *)
(* them.  Time is in milliseconds, measured from module load.              *)
(***************************************************************************)
EXTENDS Integers, Sequences, FiniteSets, TLC

VARIABLES
    CACHE_TTL_MS,   \* part_000:22, read once at module load
    env,            \* process.env: the VAULT_* settings and the fallback variables
    cache,          \* part_000:23, Map<string, Cached>
    now,            \* Date.now()
    origin,         \* history: for each entry, the call that wrote it
    last,           \* history: observation of the latest completed operation
    ncalls,         \* number of getSecret calls made so far
    nticks,         \* number of clock advances between calls so far
    calls,          \* the getSecret calls in flight, each at one of its awaits
    route           \* history: the latest request a proxy handler answered

vars == <<CACHE_TTL_MS, env, cache, now, origin, last, ncalls, nticks, calls, route>>

-----------------------------------------------------------------------------
(* Bounds of the model. *)

MaxCalls == 2
MaxTicks == 1

(* Program constants. *)

DEFAULT_TTL_MS == 300000
FALLBACK_CAP_MS == 30000

-----------------------------------------------------------------------------
(* JavaScript values. *)

Undefined == [t |-> "undefined"]
JNull == [t |-> "null"]
JStr(s) == [t |-> "string", s |-> s]
JNum(n) == [t |-> "number", n |-> n]
JObj(f) == [t |-> "object", f |-> f]
JBool(b) == [t |-> "boolean", b |-> b]

\* ToBoolean: undefined, null, "" and 0 are falsy; objects are always truthy.
Truthy(v) ==
    CASE v.t = "undefined" -> FALSE
      [] v.t = "null" -> FALSE
      [] v.t = "string" -> v.s # ""
      [] v.t = "number" -> v.n # 0
      [] v.t = "boolean" -> v.b
      [] OTHER -> TRUE

\* v[name] for a value v that is neither null nor undefined.  The names of the
\* model are never own properties of a string or a number ("length", "0", ...).
Get(v, name) ==
    IF v.t = "object" /\ name \in DOMAIN v.f THEN v.f[name] ELSE Undefined

\* String(v)
String(v) ==
    CASE v.t = "string" -> v.s
      [] v.t = "number" -> ToString(v.n)
      [] v.t = "null" -> "null"
      [] v.t = "undefined" -> "undefined"
      [] v.t = "boolean" -> IF v.b THEN "true" ELSE "false"
      [] OTHER -> "[object Object]"

\* a ?? null
OrNull(v) == IF v.t = "undefined" \/ v.t = "null" THEN JNull ELSE v

\* An object or a Map with no entries, and Map.prototype.set.
EmptyMap == [x \in {} |-> Undefined]
MapSet(m, k, v) == [x \in DOMAIN m \cup {k} |-> IF x = k THEN v ELSE m[x]]

Min(a, b) == IF a < b THEN a ELSE b

-----------------------------------------------------------------------------
(* Inputs: paths, key names, environments and the store's responses. *)

Paths == {"secret/data/app", "secret/app"}
KeyNames == {"K", "data"}

\* The key the sequences of calls ask for, under either path.
CoreKeys == {"K"}

TtlChoices == {-1000, 0, 20000, DEFAULT_TTL_MS}
EnvVals == {Undefined, JStr(""), JStr("E")}

\* process.env.  An unset VAULT_* variable and an empty one are both "": the
\* code only tests them for truthiness.  Settings the code cannot tell apart
\* (the credentials when no address is set, a lone role id or secret id when a
\* static token is set) are drawn once.
VaultSettings ==
    {e \in [VAULT_ADDR : {"", "http://vault:8200"}, VAULT_TOKEN : {"", "s.static"},
            VAULT_ROLE_ID : {"", "r"}, VAULT_SECRET_ID : {"", "s"}] :
        /\ e.VAULT_ADDR = "" => (e.VAULT_ROLE_ID = "") = (e.VAULT_TOKEN = "")
        /\ (e.VAULT_ADDR = "" \/ e.VAULT_TOKEN # "") => (e.VAULT_ROLE_ID = "") = (e.VAULT_SECRET_ID = "")}
Environments ==
    {[VAULT_ADDR |-> e.VAULT_ADDR, VAULT_TOKEN |-> e.VAULT_TOKEN,
      VAULT_ROLE_ID |-> e.VAULT_ROLE_ID, VAULT_SECRET_ID |-> e.VAULT_SECRET_ID,
      vars |-> [k \in KeyNames |-> IF k = "K" THEN v ELSE Undefined]] :
        e \in VaultSettings, v \in EnvVals}

\* Time spent awaiting the network inside one call, and between calls.
CallDelays == {1}
TickDelays == {FALLBACK_CAP_MS, DEFAULT_TTL_MS}

FieldVals == {JStr("V"), JStr(""), JNum(7)}
Fields == UNION {[D -> FieldVals] : D \in SUBSET KeyNames}

\* The login endpoint: the network fails, a non-success status, a success
\* whose body carries auth.client_token, a success whose body does not.
LoginResps ==
    {[kind |-> "neterr", token |-> ""], [kind |-> "status", token |-> ""],
     [kind |-> "ok", token |-> "s.approle"], [kind |-> "ok", token |-> ""]}

ReadResps ==
    {[kind |-> "neterr", shape |-> "null", F |-> EmptyMap],
     [kind |-> "status", shape |-> "null", F |-> EmptyMap]}
    \cup {[kind |-> "ok", shape |-> s, F |-> F] : s \in {"double", "single", "bare"}, F \in Fields}
    \cup {[kind |-> "ok", shape |-> s, F |-> EmptyMap] : s \in {"malformed", "null"}}

\* The responses the sequences of calls are checked against.
CoreReads ==
    {r \in ReadResps : r.kind # "ok" \/ r.shape = "malformed"
                          \/ (r.shape \in {"double", "single"} /\ r.F = [K |-> JStr("V")])
                          \/ (r.shape = "double" /\ r.F = EmptyMap)}

\* `await res.json().catch(() => ({}))` of a successful read.
Body(read) ==
    CASE read.shape = "double" -> JObj([data |-> JObj([data |-> JObj(read.F)])])
      [] read.shape = "single" -> JObj([data |-> JObj(read.F)])
      [] read.shape = "bare" -> JObj(read.F)
      [] read.shape = "malformed" -> JObj(EmptyMap)
      [] OTHER -> JNull

-----------------------------------------------------------------------------
(* The helper. *)

cacheKey(path, keyName) == path \o "#" \o keyName

\* part_000:65-67
Normalize(data) ==
    IF Truthy(data) /\ Truthy(Get(data, "data")) /\ Truthy(Get(Get(data, "data"), "data"))
    THEN Get(Get(data, "data"), "data")
    ELSE IF Truthy(data) /\ Truthy(Get(data, "data"))
    THEN Get(data, "data")
    ELSE data

\* Variant: AppRole is preferred over the static token.
NeedsLoginWheneverAppRole == env.VAULT_ROLE_ID # "" /\ env.VAULT_SECRET_ID # ""

\* part_000:35
NeedsLogin == env.VAULT_TOKEN = "" /\ env.VAULT_ROLE_ID # "" /\ env.VAULT_SECRET_ID # ""

Failed(err, logins, reads, auth) ==
    [ok |-> FALSE, err |-> err, data |-> Undefined, logins |-> logins, reads |-> reads, auth |-> auth]

\* part_000:51-67, with the token in hand
ReadSecret(token, logins, read) ==
    IF read.kind = "neterr" THEN Failed("read-neterr", logins, 1, token)
    ELSE IF read.kind = "status" THEN Failed("read-status", logins, 1, token)
    ELSE [ok |-> TRUE, err |-> "", data |-> Normalize(Body(read)),
          logins |-> logins, reads |-> 1, auth |-> token]

\* Variant: the address check of part_000:31 is missing.
fetchFromVaultNoAddrCheck(path, login, read) ==
    IF NeedsLogin
    THEN IF login.kind # "ok" THEN Failed("login-" \o login.kind, 1, 0, "")
         ELSE IF login.token = "" THEN Failed("login-no-token", 1, 0, "")
         ELSE ReadSecret(login.token, 1, read)
    ELSE IF env.VAULT_TOKEN = "" THEN Failed("no-auth", 0, 0, "")
    ELSE ReadSecret(env.VAULT_TOKEN, 0, read)

\* part_000:29-68.  The result tells whether the promise resolved (ok) or
\* rejected (err), the network calls made, and the bearer token of the read.
fetchFromVault(path, login, read) ==
    IF env.VAULT_ADDR = "" THEN Failed("no-addr", 0, 0, "")
    ELSE IF NeedsLogin
    THEN IF login.kind = "neterr" THEN Failed("login-neterr", 1, 0, "")
         ELSE IF login.kind = "status" THEN Failed("login-status", 1, 0, "")
         ELSE IF login.token = "" THEN Failed("login-no-token", 1, 0, "")
         ELSE ReadSecret(login.token, 1, read)
    ELSE IF env.VAULT_TOKEN = "" THEN Failed("no-auth", 0, 0, "")
    ELSE ReadSecret(env.VAULT_TOKEN, 0, read)

\* part_000:87
ExtractValue(data, keyName) ==
    IF Truthy(data) /\ Get(data, keyName) # Undefined
    THEN JStr(String(Get(data, keyName)))
    ELSE JNull

\* process.env[keyName] ?? null
EnvLookup(keyName) == OrNull(env.vars[keyName])

\* Variant: the fallback is cached for the full TTL.
FallbackTtlFull == CACHE_TTL_MS

\* part_000:101
FallbackTtl == Min(CACHE_TTL_MS, FALLBACK_CAP_MS)

\* Variant: an entry is still served at its expiresAt.
CacheHitInclusive(k, t) == k \in DOMAIN cache /\ cache[k].expiresAt >= t

\* part_000:83
CacheHit(k, t) == k \in DOMAIN cache /\ cache[k].expiresAt > t


-----------------------------------------------------------------------------
(* getSecret, part_000:79-104.  A call is one step: its awaits take `dt` ms. *)

NoFetch == Failed("", 0, 0, "")
NoRead == [kind |-> "neterr", shape |-> "null", F |-> EmptyMap]
NoLogin == [kind |-> "neterr", token |-> ""]

\* Variant: the expiry is counted from the start of the call.
ResolveRemoteFromStart(keyName, f, start, end) ==
    LET value == ExtractValue(f.data, keyName)
        envVal == EnvLookup(keyName)
    IN  [stored |-> value,
         expiresAt |-> start + CACHE_TTL_MS,
         result |-> IF value = JNull /\ Truthy(envVal) THEN envVal ELSE value,
         threw |-> FALSE]

\* Variant: a key missing from the collection does not consult the environment.
ResolveRemoteNoEnv(keyName, f, start, end) ==
    LET value == ExtractValue(f.data, keyName)
    IN  [stored |-> value, expiresAt |-> end + CACHE_TTL_MS, result |-> value, threw |-> FALSE]

\* Variant: a key missing from the collection is cached only for the fallback TTL.
ResolveRemoteBriefWhenMissing(keyName, f, start, end) ==
    LET value == ExtractValue(f.data, keyName)
        envVal == EnvLookup(keyName)
    IN  [stored |-> value,
         expiresAt |-> end + (IF value = JNull THEN FallbackTtl ELSE CACHE_TTL_MS),
         result |-> IF value = JNull /\ Truthy(envVal) THEN envVal ELSE value,
         threw |-> FALSE]

\* part_000:86-94, the try block once fetchFromVault has resolved with f.data
ResolveRemote(keyName, f, start, end) ==
    LET value == ExtractValue(f.data, keyName)
        envVal == EnvLookup(keyName)
    IN  [stored |-> value,
         expiresAt |-> end + CACHE_TTL_MS,
         result |-> IF value = JNull /\ Truthy(envVal) THEN envVal ELSE value,
         threw |-> FALSE]

\* part_000:95-103, the catch block
ResolveFallback(keyName, f, start, end) ==
    LET envVal == EnvLookup(keyName)
    IN  [stored |-> envVal,
         expiresAt |-> end + FallbackTtl,
         result |-> envVal,
         threw |-> FALSE]

\* Variant: a rejected login propagates to the caller instead of being caught.
ResolveMissLoginRejects(keyName, f, start, end) ==
    IF f.ok THEN ResolveRemote(keyName, f, start, end)
    ELSE IF f.err \in {"login-status", "login-no-token"}
    THEN [stored |-> JNull, expiresAt |-> 0, result |-> JNull, threw |-> TRUE]
    ELSE ResolveFallback(keyName, f, start, end)

\* part_000:85-103: try { ... } catch (e) { ... }
ResolveMiss(keyName, f, start, end) ==
    IF f.ok THEN ResolveRemote(keyName, f, start, end)
    ELSE ResolveFallback(keyName, f, start, end)

\* History only: what the call found under its key when it started, read off
\* the entry and the clock without going through CacheHit.
Found(k) ==
    IF k \notin DOMAIN cache
    THEN [state |-> "none", src |-> "none", pastFallbackTtl |-> FALSE,
          withinTtl |-> FALSE, returned |-> JNull, value |-> JNull,
          path |-> "", key |-> ""]
    ELSE [state |-> IF now < cache[k].expiresAt THEN "live" ELSE "expired",
          src |-> origin[k].src,
          pastFallbackTtl |-> now >= origin[k].at + Min(CACHE_TTL_MS, FALLBACK_CAP_MS),
          withinTtl |-> now < origin[k].at + CACHE_TTL_MS,
          returned |-> origin[k].returned,
          value |-> cache[k].value,
          path |-> origin[k].path, key |-> origin[k].key]

\* History only: what a call leaves behind for the properties to read.
Obs(path, keyName, end, hit, r, f, read, found) ==
    [op |-> "get", path |-> path, key |-> keyName, end |-> end,
     hit |-> hit, threw |-> r.threw, result |-> r.result, stored |-> r.stored,
     ok |-> f.ok, err |-> f.err, logins |-> f.logins, reads |-> f.reads, auth |-> f.auth,
     want |-> IF f.ok /\ read.shape \in {"double", "single"} /\ keyName \in DOMAIN read.F
              THEN JStr(String(read.F[keyName])) ELSE Undefined,
     found |-> found.state, foundSrc |-> found.src, foundWithinTtl |-> found.withinTtl,
     foundPastFallbackTtl |-> found.pastFallbackTtl,
     foundReturned |-> found.returned, foundValue |-> found.value,
     foundPath |-> found.path, foundKey |-> found.key,
     malformed |-> f.ok /\ read.shape = "malformed",
     afterClear |-> last.op = "clear",
     wasLive |-> cacheKey(path, keyName) \in last.wiped,
     wiped |-> {}]

Idle(op, wiped) ==
    [op |-> op, path |-> "", key |-> "", end |-> now,
     hit |-> FALSE, threw |-> FALSE, result |-> JNull, stored |-> JNull,
     ok |-> FALSE, err |-> "", logins |-> 0, reads |-> 0, auth |-> "",
     want |-> Undefined,
     found |-> "none", foundSrc |-> "none", foundWithinTtl |-> FALSE,
     foundPastFallbackTtl |-> FALSE,
     foundReturned |-> JNull, foundValue |-> JNull,
     foundPath |-> "", foundKey |-> "", malformed |-> FALSE,
     afterClear |-> FALSE, wasLive |-> FALSE,
     wiped |-> wiped]

\* part_000:80-83
GetSecretHit(secretPath, keyName) ==
    LET k == cacheKey(secretPath, keyName)
        r == [stored |-> cache[k].value, result |-> cache[k].value, threw |-> FALSE]
    IN  /\ ncalls < MaxCalls
        /\ CacheHit(k, now)
        /\ last' = Obs(secretPath, keyName, now, TRUE, r, NoFetch, NoRead, Found(k))
        /\ ncalls' = ncalls + 1
        /\ UNCHANGED <<CACHE_TTL_MS, env, cache, origin, now, nticks>>

\* part_000:80-103
GetSecretMiss(secretPath, keyName, login, read, dt) ==
    LET k == cacheKey(secretPath, keyName)
        f == fetchFromVault(secretPath, login, read)
        \* no await is reached before the first network call
        end == IF f.logins + f.reads = 0 THEN now ELSE now + dt
        r == ResolveMiss(keyName, f, now, end)
    IN  /\ ncalls < MaxCalls
        /\ ~CacheHit(k, now)
        /\ now' = end
        /\ cache' = IF r.threw THEN cache
                    ELSE MapSet(cache, k, [value |-> r.stored, expiresAt |-> r.expiresAt])
        /\ origin' = IF r.threw THEN origin
                     ELSE MapSet(origin, k, [src |-> IF f.ok THEN "remote" ELSE "fallback",
                                             at |-> end, returned |-> r.result,
                                             path |-> secretPath, key |-> keyName])
        /\ last' = Obs(secretPath, keyName, end, FALSE, r, f, read, Found(k))
        /\ ncalls' = ncalls + 1
        /\ UNCHANGED <<CACHE_TTL_MS, env, nticks>>

\* Variant: only the expired entries are dropped.
clearVaultCacheExpiredOnly ==
    /\ 0 < ncalls /\ ncalls < MaxCalls
    /\ cache' = [k \in {x \in DOMAIN cache : now < cache[x].expiresAt} |-> cache[k]]
    /\ origin' = [k \in {x \in DOMAIN cache : now < cache[x].expiresAt} |-> origin[k]]
    /\ last' = Idle("clear", {k \in DOMAIN cache : now < cache[k].expiresAt})
    /\ UNCHANGED <<CACHE_TTL_MS, env, now, ncalls, nticks>>

\* part_000:109-111.  It is explored between calls, where a call can see it.
clearVaultCache ==
    /\ 0 < ncalls /\ ncalls < MaxCalls
    /\ cache' = EmptyMap
    /\ origin' = EmptyMap
    /\ last' = Idle("clear", {k \in DOMAIN cache : now < cache[k].expiresAt})
    /\ UNCHANGED <<CACHE_TTL_MS, env, now, ncalls, nticks>>

\* Time passes between calls.
Tick(d) ==
    /\ nticks < MaxTicks
    /\ 0 < ncalls /\ ncalls < MaxCalls
    /\ now' = now + d
    /\ nticks' = nticks + 1
    /\ UNCHANGED <<CACHE_TTL_MS, env, cache, origin, last, ncalls>>

\* No call in flight and no request answered yet.
NoCalls == EmptyMap
NoRoute == [name |-> "none"]

Init ==
    /\ CACHE_TTL_MS \in TtlChoices
    /\ env \in Environments
    /\ cache = EmptyMap
    /\ origin = EmptyMap
    /\ now = 0
    /\ last = Idle("init", {})
    /\ ncalls = 0
    /\ nticks = 0
    /\ calls = NoCalls
    /\ route = NoRoute

\* The responses a call can meet: the login response matters only when the
\* login call is issued, the read response only when the read is.
LoginInputs == IF env.VAULT_ADDR # "" /\ NeedsLogin THEN LoginResps ELSE {NoLogin}
ReadInputs(login, reads) ==
    IF fetchFromVault("", login, NoRead).reads = 1 THEN reads ELSE {NoRead}
DelayInputs(login) ==
    IF fetchFromVault("", login, NoRead).logins = 0 /\ fetchFromVault("", login, NoRead).reads = 0
    THEN {0} ELSE CallDelays

Next ==
    \/ \E p \in Paths, k \in CoreKeys : GetSecretHit(p, k) /\ UNCHANGED <<calls, route>>
    \/ \E p \in Paths, k \in CoreKeys, login \in LoginInputs :
          \E read \in ReadInputs(login, CoreReads), dt \in DelayInputs(login) :
             GetSecretMiss(p, k, login, read, dt) /\ UNCHANGED <<calls, route>>
    \/ clearVaultCache /\ UNCHANGED <<calls, route>>
    \/ \E d \in TickDelays : Tick(d) /\ UNCHANGED <<calls, route>>

Spec == Init /\ [][Next]_vars

-----------------------------------------------------------------------------
(* Normalisation of the read's body, checked over every body of ReadResps  *)
(* on the first call of a process with a store and a static token.         *)

NormEnvironments ==
    {[VAULT_ADDR |-> "http://vault:8200", VAULT_TOKEN |-> "s.static",
      VAULT_ROLE_ID |-> "", VAULT_SECRET_ID |-> "", vars |-> v] : v \in [KeyNames -> EnvVals]}

InitNorm ==
    /\ CACHE_TTL_MS = DEFAULT_TTL_MS
    /\ env \in NormEnvironments
    /\ cache = EmptyMap
    /\ origin = EmptyMap
    /\ now = 0
    /\ last = Idle("init", {})
    /\ ncalls = 0
    /\ nticks = 0
    /\ calls = NoCalls
    /\ route = NoRoute

NextNorm ==
    \E p \in Paths, k \in KeyNames, read \in ReadResps, dt \in CallDelays :
        /\ ncalls = 0 /\ GetSecretMiss(p, k, NoLogin, read, dt)
        /\ UNCHANGED <<calls, route>>

SpecNorm == InitNorm /\ [][NextNorm]_vars

-----------------------------------------------------------------------------
(* Properties. *)

LastKey == cacheKey(last.path, last.key)
IsGet == last.op = "get"
IsMiss == last.op = "get" /\ ~last.hit
HasStore == env.VAULT_ADDR # ""
HasAppRole == env.VAULT_ROLE_ID # "" /\ env.VAULT_SECRET_ID # ""
HasCredential == env.VAULT_TOKEN # "" \/ HasAppRole
NoNetwork == last.logins = 0 /\ last.reads = 0

\* C1: a getSecret call that starts while an unexpired entry for its
\* (path, keyName) is in the cache makes no network call and returns exactly
\* the value returned by the call that wrote the entry.
C1_SecondCallRepeatsFirst ==
    (IsGet /\ last.found = "live") => (NoNetwork /\ last.result = last.foundReturned)

\* C2: a value is served from the cache only when the clock at the call is
\* strictly before the entry's expiresAt; with a TTL of zero or below no
\* entry is ever served.
C2_NeverServedPastExpiry ==
    (IsGet /\ last.hit) => (NoNetwork /\ last.found = "live" /\ CACHE_TTL_MS > 0)

C2_Witness == IsGet /\ last.hit /\ last.found = "live" /\ last.result = JStr("V")

\* C3, as stated: with a store address and a credential configured, a call
\* that finds an expired entry written by a successful remote resolution
\* performs a secret read and leaves an entry expiring at its completion
\* time plus the full cache TTL.
C3_Original ==
    (IsGet /\ last.found = "expired" /\ last.foundSrc = "remote" /\ HasStore /\ HasCredential)
        => /\ last.reads = 1
           /\ LastKey \in DOMAIN cache
           /\ cache[LastKey].expiresAt = last.end + CACHE_TTL_MS

\* C3, amended: such a call is a miss that makes a fresh remote attempt; when
\* the attempt succeeds it has performed a secret read and the entry expires
\* at the completion time plus the full cache TTL; when the attempt fails
\* the entry expires at the completion time plus min(TTL, 30000).
C3_ExpiredRemoteEntryRefetched ==
    (IsGet /\ last.found = "expired" /\ last.foundSrc = "remote" /\ HasStore /\ HasCredential)
        => /\ ~last.hit
           /\ last.logins + last.reads >= 1
           /\ LastKey \in DOMAIN cache
           /\ last.ok => /\ last.reads = 1
                         /\ cache[LastKey].expiresAt = last.end + CACHE_TTL_MS
           /\ ~last.ok => cache[LastKey].expiresAt = last.end + Min(CACHE_TTL_MS, 30000)

C3_Witness ==
    /\ IsGet /\ last.found = "expired" /\ last.foundSrc = "remote" /\ HasStore /\ HasCredential
    /\ last.ok /\ last.reads = 1 /\ CACHE_TTL_MS = DEFAULT_TTL_MS
    /\ last.result = JStr("V")

\* C4: a miss with no store address makes no network call and returns the
\* environment value of keyName, null when it is unset, whatever the path.
C4_NoAddressFallsBackToEnv ==
    (IsMiss /\ ~HasStore)
        => /\ NoNetwork
           /\ ~last.threw
           /\ last.result = IF env.vars[last.key] = Undefined THEN JNull ELSE env.vars[last.key]

C4_Witness == IsMiss /\ ~HasStore /\ HasCredential /\ last.result = JStr("E")

\* C5: a successful read whose body is {data:{data:F}} or {data:F}, with
\* keyName a field of F, makes getSecret return the string form of F[keyName].
C5_BothEnvelopesNormalized ==
    (IsMiss /\ last.want # Undefined) => last.result = last.want

\* C6: with a static token configured no login call is ever issued, every
\* secret read carries the static token and, with a store address, the read
\* is the one network call of the miss; a login call is issued only when the
\* static token is absent and both role id and secret id are present.
C6_StaticTokenPreferred ==
    IsMiss => /\ env.VAULT_TOKEN # "" =>
                    /\ last.logins = 0
                    /\ last.reads = 1 => last.auth = env.VAULT_TOKEN
                    /\ HasStore => last.reads = 1
              /\ last.logins > 0 => (env.VAULT_TOKEN = "" /\ HasAppRole)
              /\ last.logins <= 1 /\ last.reads <= 1

C6_Witness ==
    /\ IsMiss /\ HasStore /\ env.VAULT_TOKEN # "" /\ HasAppRole
    /\ last.logins = 0 /\ last.reads = 1 /\ last.auth = "s.static"

C8_FallbackCachedBriefly ==
    /\ (IsMiss /\ ~last.ok)
        => /\ LastKey \in DOMAIN cache
           /\ cache[LastKey].expiresAt = last.end + Min(CACHE_TTL_MS, 30000)
    /\ (IsGet /\ last.foundSrc = "fallback" /\ last.foundPastFallbackTtl /\ last.foundWithinTtl)
        => /\ ~last.hit
           /\ (HasStore /\ HasCredential) => last.logins + last.reads >= 1

C8_Witness ==
    /\ IsGet /\ last.foundSrc = "fallback" /\ last.foundPastFallbackTtl /\ last.foundWithinTtl
    /\ ~last.hit /\ last.reads = 1 /\ last.ok

\* C9: clearVaultCache leaves the cache empty, and the getSecret that follows
\* it is a miss for every key, also for a key whose entry was live when the
\* cache was cleared.
C9_ClearEmptiesCache ==
    /\ last.op = "clear" => cache = EmptyMap
    /\ (IsGet /\ last.afterClear) => (~last.hit /\ last.found = "none")
    /\ (IsGet /\ last.afterClear /\ HasStore /\ HasCredential) => last.logins + last.reads >= 1

C9_Witness ==
    IsGet /\ last.afterClear /\ last.wasLive /\ ~last.hit /\ last.reads = 1

MissingAddr == last.err = "no-addr"
MissingCredential == last.err = "no-auth"
ReadFailed == last.err \in {"read-neterr", "read-status"}
KeyNotInCollection == last.ok /\ last.stored = JNull

\* C10, as stated: with the store address missing, no credential, a failed
\* secret read or keyName absent from the collection, getSecret does not
\* throw and returns the environment value of keyName, null when unset.
C10_Original ==
    (IsMiss /\ (MissingAddr \/ MissingCredential \/ ReadFailed \/ KeyNotInCollection))
        => /\ ~last.threw
           /\ last.result = IF env.vars[last.key] = Undefined THEN JNull ELSE env.vars[last.key]

\* C10, amended: in those cases getSecret does not throw and returns the
\* environment value of keyName, null when unset; when keyName is absent from
\* the fetched collection an empty environment value is returned as null too.
C10_NeverThrowsOnSoftFailure ==
    (IsMiss /\ (MissingAddr \/ MissingCredential \/ ReadFailed \/ KeyNotInCollection))
        => /\ ~last.threw
           /\ last.result =
                IF env.vars[last.key] = Undefined THEN JNull
                ELSE IF KeyNotInCollection /\ env.vars[last.key] = JStr("") THEN JNull
                ELSE env.vars[last.key]

C10_Witness == IsMiss /\ KeyNotInCollection /\ last.result = JStr("E")

\* C11, as stated: when the collection is fetched but has no keyName, the call
\* returns the environment value of keyName (null when unset) and caches a
\* 'key not present' entry expiring at the completion time plus the full TTL;
\* a later lookup of the pair inside that TTL fetches nothing.
C11_Original ==
    /\ (IsMiss /\ KeyNotInCollection)
        => /\ last.result = IF env.vars[last.key] = Undefined THEN JNull ELSE env.vars[last.key]
           /\ LastKey \in DOMAIN cache
           /\ cache[LastKey] = [value |-> JNull, expiresAt |-> last.end + CACHE_TTL_MS]
    /\ (IsGet /\ last.foundSrc = "remote" /\ last.foundValue = JNull /\ last.foundWithinTtl)
        => (last.hit /\ NoNetwork)

\* C11, amended: such a call returns the environment value of keyName when it
\* is a non-empty string and null otherwise (unset or empty), and caches the
\* entry {null, completion time + full TTL}; a later lookup of the pair
\* inside that TTL is a cache hit that makes no network call.
C11_KeyMissingCachedFullTtl ==
    /\ (IsMiss /\ KeyNotInCollection)
        => /\ ~last.threw
           /\ last.result = IF Truthy(env.vars[last.key]) THEN env.vars[last.key] ELSE JNull
           /\ LastKey \in DOMAIN cache
           /\ cache[LastKey] = [value |-> JNull, expiresAt |-> last.end + CACHE_TTL_MS]
    /\ (IsGet /\ last.foundSrc = "remote" /\ last.foundValue = JNull /\ last.foundWithinTtl)
        => (last.hit /\ NoNetwork)

C11_Witness ==
    /\ IsGet /\ last.hit /\ NoNetwork
    /\ last.foundSrc = "remote" /\ last.foundValue = JNull /\ last.foundWithinTtl
    /\ last.foundReturned = JStr("E")

\* C12: when the secret read fails transiently (a non-2xx status, a network
\* error, a body that is not valid JSON) getSecret returns the environment
\* value of keyName (null when it is unset or empty) and the entry it caches
\* expires no later than the completion time plus min(TTL, 30000).
C12_TransientFailureCachedBriefly ==
    (IsMiss /\ (ReadFailed \/ last.malformed))
        => /\ ~last.threw
           /\ last.result = IF Truthy(env.vars[last.key]) THEN env.vars[last.key]
                             ELSE IF ReadFailed /\ env.vars[last.key] = JStr("") THEN JStr("")
                             ELSE JNull
           /\ LastKey \in DOMAIN cache
           /\ cache[LastKey].expiresAt <= last.end + Min(CACHE_TTL_MS, 30000)

\* C17: after a getSecret call that was a cache miss, the value stored in the
\* cache under its (path, keyName) is the value the call returned.
C17_StoredEqualsReturned ==
    (IsMiss /\ ~last.threw)
        => (LastKey \in DOMAIN cache /\ cache[LastKey].value = last.result)

-----------------------------------------------------------------------------
(* Paths and key names that contain '#', the separator of cacheKey, looked *)
(* up by a process with a store and a static token.                       *)

HashPaths == {"a", "a#b"}
HashKeyNames == {"c", "b#c"}

HashEnvironments ==
    {[VAULT_ADDR |-> "http://vault:8200", VAULT_TOKEN |-> "s.static",
      VAULT_ROLE_ID |-> "", VAULT_SECRET_ID |-> "", vars |-> v] :
        v \in [HashKeyNames -> {Undefined, JStr("E")}]}

HashReads ==
    {[kind |-> "neterr", shape |-> "null", F |-> EmptyMap]}
    \cup {[kind |-> "ok", shape |-> "single", F |-> F] :
              F \in [HashKeyNames -> {JStr("V"), JNum(7)}]}

InitKeys ==
    /\ CACHE_TTL_MS = DEFAULT_TTL_MS
    /\ env \in HashEnvironments
    /\ cache = EmptyMap
    /\ origin = EmptyMap
    /\ now = 0
    /\ last = Idle("init", {})
    /\ ncalls = 0
    /\ nticks = 0
    /\ calls = NoCalls
    /\ route = NoRoute

NextKeys ==
    \/ \E p \in HashPaths, k \in HashKeyNames :
          GetSecretHit(p, k) /\ UNCHANGED <<calls, route>>
    \/ \E p \in HashPaths, k \in HashKeyNames, read \in HashReads, dt \in CallDelays :
          GetSecretMiss(p, k, NoLogin, read, dt) /\ UNCHANGED <<calls, route>>
    \/ \E d \in TickDelays : Tick(d) /\ UNCHANGED <<calls, route>>

SpecKeys == InitKeys /\ [][NextKeys]_vars

\* C20: a getSecret call for (path, keyName) reads or overwrites only an entry
\* that was written by a call for the same (path, keyName), also when the
\* strings contain '#'.
C20_PairsHaveOwnEntries ==
    (IsGet /\ last.found # "none")
        => (last.foundPath = last.path /\ last.foundKey = last.key)

-----------------------------------------------------------------------------
(* Concurrent getSecret calls for one (path, keyName).  A call runs up to  *)
(* its next await and yields: getSecret awaits fetchFromVault              *)
(* (part_000:86), which awaits the login (38-45) and the read (52-62).     *)

NCallers == 2
Callers == 1..NCallers

ConcPath == "secret/data/app"
ConcKey == "K"

\* No store; a store with a static token; a store with AppRole only.
ConcEnvironments ==
    {e \in Environments :
        /\ e.vars[ConcKey] = JStr("E")
        /\ (e.VAULT_ROLE_ID = "") = (e.VAULT_SECRET_ID = "")
        /\ (e.VAULT_TOKEN = "") = (e.VAULT_ADDR = "" \/ e.VAULT_ROLE_ID # "")}
ConcLogins == {r \in LoginResps : r.kind = "status" \/ r.token # ""}
ConcReads == {r \in CoreReads : r.kind = "neterr" \/ (r.shape = "double" /\ r.F # EmptyMap)}

IdleCall ==
    [pc |-> "idle", ord |-> 0, start |-> 0, hit |-> FALSE, login |-> NoLogin, f |-> NoFetch,
     logins |-> 0, reads |-> 0, result |-> JNull, clobbered |-> FALSE]

Pending(c) == calls[c].pc \in {"login", "read", "rejected", "resolved"}

\* Variant: single-flight, a call that finds another one in flight sends nothing.
StartFetchSingleFlight(c, ord) ==
    LET first == fetchFromVault(ConcPath, NoLogin, NoRead)
        joined == \E d \in Callers \ {c} : Pending(d)
    IN  [calls[c] EXCEPT
            !.ord = ord, !.start = now,
            !.pc = IF joined THEN "rejected"
                   ELSE IF first.logins = 1 THEN "login"
                   ELSE IF first.reads = 1 THEN "read" ELSE "rejected",
            !.f = IF joined THEN Failed("joined", 0, 0, "") ELSE first,
            !.logins = IF joined THEN 0 ELSE first.logins,
            !.reads = IF joined THEN 0 ELSE first.reads]

\* part_000:86 and 29-55: fetchFromVault runs to its first await, the login
\* request or the read request, or rejects before any request.
StartFetch(c, ord) ==
    LET first == fetchFromVault(ConcPath, NoLogin, NoRead)
    IN  [calls[c] EXCEPT
            !.ord = ord, !.start = now,
            !.pc = IF first.logins = 1 THEN "login"
                   ELSE IF first.reads = 1 THEN "read" ELSE "rejected",
            !.f = first, !.logins = first.logins, !.reads = first.reads]

\* part_000:80-86: the cache lookup and, on a miss, the start of the fetch
Begin(c) ==
    LET k == cacheKey(ConcPath, ConcKey)
        ord == Cardinality({d \in Callers : calls[d].pc # "idle"}) + 1
    IN  /\ calls[c].pc = "idle"
        /\ calls' = [calls EXCEPT ![c] =
                IF CacheHit(k, now)
                THEN [@ EXCEPT !.pc = "done", !.ord = ord, !.start = now, !.hit = TRUE,
                               !.result = cache[k].value]
                ELSE StartFetch(c, ord)]
        /\ UNCHANGED <<CACHE_TTL_MS, env, cache, now, origin, last, ncalls, nticks, route>>

\* part_000:38-49: the login settles; with a token the read is sent
LoginDone(c, login, dt) ==
    LET g == fetchFromVault(ConcPath, login, NoRead)
    IN  /\ calls[c].pc = "login"
        /\ now' = now + dt
        /\ calls' = [calls EXCEPT ![c] =
                [@ EXCEPT !.login = login, !.f = g, !.reads = g.reads,
                          !.pc = IF g.reads = 1 THEN "read" ELSE "rejected"]]
        /\ UNCHANGED <<CACHE_TTL_MS, env, cache, origin, last, ncalls, nticks, route>>

\* part_000:52-67: the read settles and fetchFromVault resolves or rejects
ReadDone(c, read, dt) ==
    LET g == fetchFromVault(ConcPath, calls[c].login, read)
    IN  /\ calls[c].pc = "read"
        /\ now' = now + dt
        /\ calls' = [calls EXCEPT ![c] =
                [@ EXCEPT !.f = g, !.pc = IF g.ok THEN "resolved" ELSE "rejected"]]
        /\ UNCHANGED <<CACHE_TTL_MS, env, cache, origin, last, ncalls, nticks, route>>

\* part_000:87-103: the continuation of getSecret after the await
Finish(c) ==
    LET k == cacheKey(ConcPath, ConcKey)
        r == ResolveMiss(ConcKey, calls[c].f, calls[c].start, now)
        \* history: this call's fallback replaces the live entry a later-started
        \* call wrote with a value it read from the store
        clobbers == /\ ~calls[c].f.ok
                    /\ k \in DOMAIN cache /\ now < cache[k].expiresAt
                    /\ origin[k].src = "remote" /\ cache[k].value # JNull
                    /\ calls[c].ord < origin[k].ord
    IN  /\ calls[c].pc \in {"rejected", "resolved"}
        /\ cache' = MapSet(cache, k, [value |-> r.stored, expiresAt |-> r.expiresAt])
        /\ origin' = MapSet(origin, k, [src |-> IF calls[c].f.ok THEN "remote" ELSE "fallback",
                                        at |-> now, returned |-> r.result,
                                        path |-> ConcPath, key |-> ConcKey,
                                        ord |-> calls[c].ord])
        /\ calls' = [calls EXCEPT ![c] =
                [@ EXCEPT !.pc = "done", !.result = r.result, !.clobbered = clobbers]]
        /\ UNCHANGED <<CACHE_TTL_MS, env, now, last, ncalls, nticks, route>>

\* What the network and the event loop do for a call in flight.
Settle(c) ==
    \/ \E login \in ConcLogins, dt \in CallDelays : LoginDone(c, login, dt)
    \/ \E read \in ConcReads, dt \in CallDelays : ReadDone(c, read, dt)
    \/ Finish(c)

InitConc ==
    /\ CACHE_TTL_MS = DEFAULT_TTL_MS
    /\ env \in ConcEnvironments
    /\ cache = EmptyMap
    /\ origin = EmptyMap
    /\ now = 0
    /\ last = Idle("init", {})
    /\ ncalls = 0
    /\ nticks = 0
    /\ calls = [c \in Callers |-> IdleCall]
    /\ route = NoRoute

NextConc ==
    \/ \E c \in Callers : Begin(c)
    \/ \E c \in Callers, login \in ConcLogins, dt \in CallDelays : LoginDone(c, login, dt)
    \/ \E c \in Callers, read \in ConcReads, dt \in CallDelays : ReadDone(c, read, dt)
    \/ \E c \in Callers : Finish(c)

SpecConc == InitConc /\ [][NextConc]_vars

\* Every request sent gets an answer or an error, and the event loop runs every
\* continuation that is ready.
SpecConcFair == SpecConc /\ \A c \in Callers : WF_vars(Settle(c))

Done(c) == calls[c].pc = "done"
Missed(c) == calls[c].pc # "idle" /\ ~calls[c].hit
\* The store is configured and the call holds a token for the read.
HoldsToken(c) ==
    /\ HasStore
    /\ \/ env.VAULT_TOKEN # ""
       \/ HasAppRole /\ calls[c].login.kind = "ok" /\ calls[c].login.token # ""

\* C18, as stated: every call that started with no live entry in the cache
\* performs a secret read of its own.
C18_Original == \A c \in Callers : (Done(c) /\ Missed(c)) => calls[c].reads = 1

C18_Safety ==
    /\ \A c \in Callers :
          /\ (Done(c) /\ Missed(c))
                => /\ calls[c].reads = (IF HoldsToken(c) THEN 1 ELSE 0)
                   /\ calls[c].logins = (IF HasStore /\ NeedsLogin THEN 1 ELSE 0)
          /\ Pending(c) => ENABLED Settle(c)
    /\ ((\A c \in Callers : Done(c)) /\ (\E c \in Callers : Missed(c)))
          => DOMAIN cache = {cacheKey(ConcPath, ConcKey)}

\* C18, amended: every call that started with no live entry makes its own
\* remote attempt, with its own login when AppRole is used and its own secret
\* read whenever the store is configured and it holds a token; a call in
\* flight can always take its next step, whatever the other calls are doing;
\* every call in flight terminates; and once all calls are done the cache
\* holds exactly one entry, under the key of the pair.
C18_NoSingleFlight ==
    /\ []C18_Safety
    /\ \A c \in Callers : Pending(c) ~> Done(c)

C18_Witness ==
    /\ \A c \in Callers : Done(c) /\ Missed(c) /\ calls[c].reads = 1 /\ calls[c].f.ok
    /\ \E c \in Callers : calls[c].logins = 1
    /\ DOMAIN cache = {cacheKey(ConcPath, ConcKey)}

\* C19: the fallback written by a call whose remote attempt failed never
\* replaces an unexpired entry that holds a value read from the store by a
\* call that started later.
C19_RemoteEntryNeverClobbered == \A c \in Callers : ~calls[c].clobbered

-----------------------------------------------------------------------------
(* The Bright Data proxy: the route handlers under src/app/api/brightdata, *)
(* src/unnamed/part_001 (deliver-snapshot) and part_002 (filter), and the  *)
(* helpers of src/lib/brightdata-datasets.ts and src/lib/supabase.ts.      *)
(* A handler is an operator from its inputs (the request body, the token,  *)
(* the upstream response, the behaviour of the logging sink) to what it    *)
(* sends upstream, what it logs and what it answers.                       *)

BD_PATH == "secret/data/dealstream/brightdata"
BD_KEY == "BRIGHTDATA_API_TOKEN"

\* a || b, a destructuring default, Math.min on numbers
OrElse(a, b) == IF Truthy(a) THEN a ELSE b
Default(v, d) == IF v = Undefined THEN d ELSE v
MathMin(a, b) == JNum(Min(a.n, b.n))
\* a && b; !a || !b is !(a && b)
AndAlso(a, b) == IF Truthy(a) THEN b ELSE a

\* process.env of the proxy: the Vault settings (no store, or a store with a
\* static token), BRIGHTDATA_API_TOKEN, the Supabase URL and key, the MCP
\* server (URL and token) and the Unlocker proxy (host, port, user and
\* password).  No handler reads both the MCP and the proxy settings, so they
\* are set together or not at all.
ProxyEnvironments ==
    {[VAULT_ADDR |-> a, VAULT_TOKEN |-> IF a = "" THEN "" ELSE "s.static",
      VAULT_ROLE_ID |-> "", VAULT_SECRET_ID |-> "",
      vars |-> [k \in {BD_KEY} |-> v],
      SUPABASE_URL |-> sb, SUPABASE_KEY |-> sb,
      BRIGHTDATA_MCP_URL |-> m, BRIGHTDATA_MCP_TOKEN |-> m,
      BRIGHTDATA_PROXY_HOST |-> m, BRIGHTDATA_PROXY_PORT |-> m,
      BRIGHTDATA_PROXY_USER |-> m, BRIGHTDATA_PROXY_PASS |-> m] :
        a \in {"", "http://vault:8200"}, v \in {Undefined, JStr(""), JStr("bd-env")},
        sb \in {"", "sb"}, m \in {Undefined, JStr("set")}}

\* What the store answers to the read of BD_PATH.
ProxyReads ==
    {[kind |-> "neterr", shape |-> "null", F |-> EmptyMap],
     [kind |-> "ok", shape |-> "double", F |-> EmptyMap],
     [kind |-> "ok", shape |-> "double", F |-> [k \in {BD_KEY} |-> JStr("bd-vault")]]}

\* A request: whether its body parses as JSON, the identifier the route
\* requires (snapshot_id, dataset_id, query, endpoint), dryRun and limit.
Limits == {Undefined, JNum(-2), JNum(0), JNum(1), JNum(5)}
EmptyBody == [json |-> TRUE, id |-> Undefined, dryRun |-> Undefined, limit |-> Undefined]
Malformed == [json |-> FALSE, id |-> Undefined, dryRun |-> Undefined, limit |-> Undefined]
Bodies(ids, limits) ==
    {Malformed} \cup
    {[json |-> TRUE, id |-> i, dryRun |-> d, limit |-> l] :
        i \in ids, d \in {Undefined, JBool(TRUE)}, l \in limits}

\* What Bright Data answers: the connection fails, or a status and a body that
\* is JSON or plain text.
NoUp == [kind |-> "none", status |-> 0, json |-> FALSE]
UpResps ==
    {[kind |-> "neterr", status |-> 0, json |-> FALSE],
     [kind |-> "ok", status |-> 200, json |-> TRUE],
     [kind |-> "ok", status |-> 200, json |-> FALSE],
     [kind |-> "ok", status |-> 404, json |-> TRUE],
     [kind |-> "ok", status |-> 500, json |-> FALSE]}

\* What the insert into bd_logs does: it resolves without an error, resolves
\* with an error, or rejects.  "unconfigured": getSupabaseClient throws.
Sinks == {"ok", "error", "reject"}

\* supabase.ts:10-13
SupabaseConfigured == env.SUPABASE_URL # "" /\ env.SUPABASE_KEY # ""

\* supabase.ts:52-62.  The return value, or the rejection of the awaited insert.
logBrightDataInteraction(sb) ==
    IF sb = "reject" THEN [threw |-> TRUE, ok |-> FALSE]
    ELSE IF sb = "error" THEN [threw |-> FALSE, ok |-> FALSE]
    ELSE [threw |-> FALSE, ok |-> TRUE]

LogEntry(endpoint, status, sb) ==
    [endpoint |-> endpoint, status |-> status, called |-> sb # "unconfigured",
     threw |-> sb # "unconfigured" /\ logBrightDataInteraction(sb).threw,
     ok |-> sb # "unconfigured" /\ logBrightDataInteraction(sb).ok]

\* Variant: the logging block has no try/catch, what it throws escapes.
BestEffortLogUnguarded(sb, endpoint, status) ==
    [logs |-> <<LogEntry(endpoint, status, sb)>>,
     escaped |-> sb = "unconfigured" \/ logBrightDataInteraction(sb).threw]

\* try { supabase = getSupabaseClient(); await logBrightDataInteraction(...) }
\* catch (e) { console.error(...) }, e.g. brightdata-datasets.ts:119-136
BestEffortLog(sb, endpoint, status) ==
    [logs |-> <<LogEntry(endpoint, status, sb)>>, escaped |-> FALSE]

Req(endpoint, method, limit) == [endpoint |-> endpoint, method |-> method, limit |-> limit]

\* The body of an answer: an error of the proxy, the upstream body passed
\* through, or the simulated delivery.
ProxyErr(msg) == [from |-> "proxy", error |-> msg, json |-> TRUE, delivered |-> FALSE]
Upstream(up) == [from |-> "upstream", error |-> "", json |-> up.json, delivered |-> FALSE]
Simulated == [from |-> "simulated", error |-> "", json |-> TRUE, delivered |-> FALSE]

Answer(sent, logs, status, body) ==
    [sent |-> sent, logs |-> logs, status |-> status, body |-> body, threw |-> FALSE]

\* res.status >= 200 && res.status < 300 ? "ok" : "error"
StatusLabel(up, good) == IF up.status >= 200 /\ up.status < 300 THEN good ELSE "error"

\* req.json().catch(() => ({}))
ParseOrEmpty(body) == IF body.json THEN body ELSE EmptyBody

\* The outer catch of a handler: 500, after a best-effort error log in the
\* handlers that have one (e.g. part_001:117-135).
Caught(sent, logs, logsError, sb) ==
    Answer(sent,
           IF logsError THEN logs \o BestEffortLog(sb, "error", "error").logs ELSE logs,
           500, ProxyErr("Internal proxy error"))

\* The common tail of the handlers: await fetch, read the body, log the
\* exchange, answer with the upstream status and body (e.g. part_002:50-95).
\* `strict`: the body is read with res.json(), which rejects on plain text.
Forward(req, up, sb, endpoint, good, strict, logsError) ==
    IF up.kind = "neterr" \/ (strict /\ ~up.json)
    THEN Caught(<<req>>, <<>>, logsError, sb)
    ELSE LET l == BestEffortLog(sb, endpoint, StatusLabel(up, good))
         IN  IF l.escaped THEN Caught(<<req>>, l.logs, logsError, sb)
             ELSE Answer(<<req>>, l.logs, up.status, Upstream(up))

\* part_002:24-101
filterPOST(body, token, up, sb) ==
    IF ~Truthy(token) THEN Answer(<<>>, <<>>, 400, ProxyErr("Missing BRIGHTDATA_API_TOKEN"))
    ELSE LET b == ParseOrEmpty(body)
             dryRun == Default(b.dryRun, JBool(FALSE))
             incomingLimit == b.limit
             limit == IF Truthy(dryRun) THEN MathMin(OrElse(incomingLimit, JNum(1)), JNum(1))
                      ELSE IF Truthy(incomingLimit) THEN incomingLimit
                      ELSE Undefined
         IN  Forward(Req("filter", "POST", limit), up, sb, "filter", "ok", FALSE, FALSE)

\* snapshot-meta/route.ts:21-86
snapshotMetaPOST(body, token, up, sb) ==
    IF ~Truthy(token) THEN Answer(<<>>, <<>>, 400, ProxyErr("Missing BRIGHTDATA_API_TOKEN"))
    ELSE IF ~Truthy(ParseOrEmpty(body).id)
    THEN Answer(<<>>, <<>>, 400, ProxyErr("snapshot_id is required"))
    ELSE Forward(Req("meta", "GET", Undefined), up, sb, "meta", "ok", FALSE, FALSE)

\* snapshot-parts/route.ts:21-86
snapshotPartsPOST(body, token, up, sb) ==
    IF ~Truthy(token) THEN Answer(<<>>, <<>>, 400, ProxyErr("Missing BRIGHTDATA_API_TOKEN"))
    ELSE IF ~Truthy(ParseOrEmpty(body).id)
    THEN Answer(<<>>, <<>>, 400, ProxyErr("snapshot_id is required"))
    ELSE Forward(Req("parts", "GET", Undefined), up, sb, "parts", "ok", FALSE, FALSE)

\* unlocker/route.ts:127-235 (snapshot-download)
snapshotDownloadPOST(body, token, up, sb) ==
    IF ~Truthy(token) THEN Answer(<<>>, <<>>, 400, ProxyErr("Missing BRIGHTDATA_API_TOKEN"))
    ELSE LET b == ParseOrEmpty(body)
         IN  IF ~Truthy(b.id) THEN Answer(<<>>, <<>>, 400, ProxyErr("snapshot_id is required"))
             ELSE IF Truthy(Default(b.dryRun, JBool(FALSE)))
             THEN Forward(Req("meta", "GET", Undefined), up, sb,
                          "download (dry-run)", "dry-run", FALSE, FALSE)
             ELSE Forward(Req("download", "GET", Undefined), up, sb,
                          "download", "ok", FALSE, FALSE)

\* metadata/route.ts:21-84; `id` is the dataset_id query parameter
metadataGET(body, token, up, sb) ==
    IF ~Truthy(token) THEN Answer(<<>>, <<>>, 400, ProxyErr("Missing BRIGHTDATA_API_TOKEN"))
    ELSE IF ~Truthy(body.id)
    THEN Answer(<<>>, <<>>, 400, ProxyErr("dataset_id query parameter is required"))
    ELSE Forward(Req("metadata", "GET", Undefined), up, sb, "metadata", "ok", FALSE, FALSE)

\* deep-lookup/route.ts:16-87; `id` is the query
deepLookupPOST(body, token, up, sb) ==
    IF ~Truthy(token) THEN Answer(<<>>, <<>>, 400, ProxyErr("Missing BRIGHTDATA_API_TOKEN"))
    ELSE IF ~body.json THEN Caught(<<>>, <<>>, TRUE, sb)
    ELSE IF ~Truthy(body.id) THEN Answer(<<>>, <<>>, 400, ProxyErr("Missing query"))
    ELSE LET limit == IF Truthy(Default(body.dryRun, JBool(FALSE))) THEN JNum(1) ELSE Undefined
         IN  Forward(Req("deep-lookup", "POST", limit), up, sb, "deep-lookup", "ok", TRUE, TRUE)

\* scraper/route.ts:20-93; `id` is the endpoint, `limit` is payload.limit
scraperPOST(body, token, up, sb) ==
    IF ~Truthy(token) THEN Answer(<<>>, <<>>, 400, ProxyErr("Missing BRIGHTDATA_API_TOKEN"))
    ELSE IF ~body.json THEN Caught(<<>>, <<>>, TRUE, sb)
    ELSE IF ~Truthy(body.id) THEN Answer(<<>>, <<>>, 400, ProxyErr("Missing endpoint"))
    ELSE LET limit == IF Truthy(Default(body.dryRun, JBool(FALSE))) /\ body.limit = Undefined
                      THEN JNum(10) ELSE body.limit
         IN  Forward(Req("execute", "POST", limit), up, sb, "execute", "ok", TRUE, TRUE)

\* unlocker/route.ts:22-103; `conf` is HOST && PORT && USER && PASS of the
\* proxy settings (assertEnv), `id` is the url.
unlockerPOST(body, conf, up, sb) ==
    IF ~Truthy(conf) THEN Caught(<<>>, <<>>, TRUE, sb)
    ELSE IF ~body.json THEN Caught(<<>>, <<>>, TRUE, sb)
    ELSE IF ~Truthy(body.id) THEN Answer(<<>>, <<>>, 400, ProxyErr("Missing url"))
    ELSE LET method == IF Truthy(Default(body.dryRun, JBool(FALSE))) THEN "HEAD" ELSE "GET"
         IN  Forward(Req("target", method, Undefined), up, sb, "target", "ok", FALSE, TRUE)

\* mcp/route.ts:16-80; `conf` is BRIGHTDATA_MCP_URL && BRIGHTDATA_MCP_TOKEN.
\* Object.keys(body).length === 0: the body has none of its fields.
mcpPOST(body, conf, up, sb) ==
    IF ~Truthy(conf) THEN Answer(<<>>, <<>>, 400, ProxyErr("MCP not configured"))
    ELSE IF ~body.json THEN Caught(<<>>, <<>>, TRUE, sb)
    ELSE IF body.id = Undefined /\ body.dryRun = Undefined /\ body.limit = Undefined
    THEN Answer(<<>>, <<>>, 400, ProxyErr("Missing task body"))
    ELSE Forward(Req("agent/run", "POST", Undefined), up, sb, "agent/run", "ok", TRUE, TRUE)

\* Variant: the dry run is ignored and the delivery is requested.
deliverSnapshotPOSTIgnoresDryRun(body, token, up, sb) ==
    IF ~Truthy(ParseOrEmpty(body).id)
    THEN Answer(<<>>, <<>>, 400, ProxyErr("snapshot_id is required"))
    ELSE IF ~Truthy(token)
    THEN Answer(<<>>, <<>>, 500, ProxyErr("Missing BRIGHTDATA_API_TOKEN (Vault/env fallback)"))
    ELSE Forward(Req("deliver", "POST", Undefined), up, sb, "deliver", "ok", FALSE, TRUE)

\* part_001:26-136, from the parsed body on; `token` is what getSecret returned
deliverSnapshotPOST(body, token, up, sb) ==
    LET b == ParseOrEmpty(body)
    IN  IF ~Truthy(b.id) THEN Answer(<<>>, <<>>, 400, ProxyErr("snapshot_id is required"))
        ELSE IF ~Truthy(token)
        THEN Answer(<<>>, <<>>, 500, ProxyErr("Missing BRIGHTDATA_API_TOKEN (Vault/env fallback)"))
        ELSE IF Truthy(Default(b.dryRun, JBool(FALSE)))
        THEN LET l == BestEffortLog(sb, "deliver (dry-run)", "dry-run")
             IN  IF l.escaped THEN Caught(<<>>, l.logs, TRUE, sb)
                 ELSE Answer(<<>>, l.logs, 200, Simulated)
        ELSE Forward(Req("deliver", "POST", Undefined), up, sb, "deliver", "ok", FALSE, TRUE)

\* Variant: the request is sent whatever ensureToken found.
fetchBrightDataNoTokenCheck(body, token, up, sb) ==
    IF up.kind = "neterr"
    THEN [sent |-> <<Req("filter", "POST", body.limit)>>, logs |-> <<>>, status |-> 0,
          body |-> ProxyErr("fetch failed"), threw |-> TRUE]
    ELSE Answer(<<Req("filter", "POST", body.limit)>>,
                BestEffortLog(sb, "filter", StatusLabel(up, "ok")).logs,
                up.status, Upstream(up))

\* brightdata-datasets.ts:23-29 and 88-138, for a POST to the filter URL;
\* `token` is what getSecret returned.  It has no catch: a throw is the
\* caller's.
fetchBrightData(body, token, up, sb) ==
    IF ~Truthy(token)
    THEN [sent |-> <<>>, logs |-> <<>>, status |-> 0,
          body |-> ProxyErr("Missing BRIGHTDATA_API_TOKEN (Vault and env fallback failed)"),
          threw |-> TRUE]
    ELSE IF up.kind = "neterr"
    THEN [sent |-> <<Req("filter", "POST", body.limit)>>, logs |-> <<>>, status |-> 0,
          body |-> ProxyErr("fetch failed"), threw |-> TRUE]
    ELSE LET l == BestEffortLog(sb, "filter", StatusLabel(up, "ok"))
         IN  IF l.escaped
             THEN [sent |-> <<Req("filter", "POST", body.limit)>>, logs |-> l.logs, status |-> 0,
                   body |-> ProxyErr("logging failed"), threw |-> TRUE]
             ELSE Answer(<<Req("filter", "POST", body.limit)>>, l.logs, up.status, Upstream(up))

\* opts of applyDryRunGuard: absent, or {dryRun, softCap}
GuardOpts ==
    {Undefined} \cup
    {JObj([dryRun |-> d, softCap |-> c]) :
        d \in {Undefined, JBool(TRUE), JBool(FALSE)}, c \in {Undefined, JNum(0), JNum(3)}}
Payloads ==
    {JObj(EmptyMap), JObj([q |-> JStr("x")])}
    \cup {JObj([limit |-> l]) : l \in Limits \ {Undefined}}
    \cup {JObj([limit |-> l, q |-> JStr("x")]) : l \in Limits \ {Undefined}}

\* brightdata-datasets.ts:62-74
applyDryRunGuard(payload, opts) ==
    LET dryRun == Truthy(Get(opts, "dryRun"))
        softCap == IF Get(opts, "softCap").t = "number" THEN Get(opts, "softCap") ELSE Undefined
        out == payload.f
    IN  IF dryRun
        THEN IF Get(payload, "limit") = Undefined THEN JObj(MapSet(out, "limit", JNum(1)))
             ELSE JObj(MapSet(out, "limit", MathMin(out["limit"], JNum(1))))
        ELSE IF Truthy(softCap) /\ Get(payload, "limit") # Undefined
        THEN JObj(MapSet(out, "limit", MathMin(out["limit"], softCap)))
        ELSE JObj(out)

EnvRoutes ==
    {"filter", "snapshot-meta", "snapshot-parts", "snapshot-download", "metadata",
     "deep-lookup", "scraper"}

\* A handler by the name of its route.
Handle(name, body, token, up, sb) ==
    CASE name = "filter" -> filterPOST(body, token, up, sb)
      [] name = "snapshot-meta" -> snapshotMetaPOST(body, token, up, sb)
      [] name = "snapshot-parts" -> snapshotPartsPOST(body, token, up, sb)
      [] name = "snapshot-download" -> snapshotDownloadPOST(body, token, up, sb)
      [] name = "metadata" -> metadataGET(body, token, up, sb)
      [] name = "deep-lookup" -> deepLookupPOST(body, token, up, sb)
      [] name = "scraper" -> scraperPOST(body, token, up, sb)
      [] name = "deliver-snapshot" -> deliverSnapshotPOST(body, token, up, sb)
      [] name = "unlocker" -> unlockerPOST(body, token, up, sb)
      [] name = "mcp" -> mcpPOST(body, token, up, sb)
      [] OTHER -> fetchBrightData(body, token, up, sb)

\* History only: the request and what the handler did with it.  The upstream
\* response and the sink are recorded only when the handler got to them.
Handled(name, body, token, asked, up, sb, h) ==
    [name |-> name, body |-> body, token |-> token, asked |-> asked,
     up |-> IF h.sent = <<>> THEN NoUp ELSE up,
     sb |-> IF h.logs = <<>> THEN "unused" ELSE sb,
     sent |-> h.sent, logs |-> h.logs, status |-> h.status, answer |-> h.body,
     threw |-> h.threw, given |-> Undefined, payload |-> Undefined, opts |-> Undefined,
     out |-> Undefined]

\* History only: the payload as it was given, the payload object after the
\* call, the options and the returned object.
Guarded(given, payload, opts, out) ==
    [name |-> "applyDryRunGuard", body |-> EmptyBody, token |-> Undefined, asked |-> FALSE,
     up |-> NoUp, sb |-> "unused", sent |-> <<>>, logs |-> <<>>, status |-> 0,
     answer |-> Simulated, threw |-> FALSE, given |-> given, payload |-> payload,
     opts |-> opts, out |-> out]

\* The sink as the handler meets it.
Sink(sink) == IF SupabaseConfigured THEN sink ELSE "unconfigured"

\* A route that reads the token from process.env.BRIGHTDATA_API_TOKEN.  The
\* handlers keep no state of their own: a behaviour handles one request,
\* after the getSecret calls that have filled the Vault cache.
ConfRoute(name, conf, body, up, sink) ==
    /\ route = NoRoute
    /\ route' = Handled(name, body, conf, FALSE, up, Sink(sink),
                        Handle(name, body, conf, up, Sink(sink)))
    /\ UNCHANGED <<CACHE_TTL_MS, env, cache, now, origin, last, ncalls, nticks, calls>>

EnvRoute(name, body, up, sink) == ConfRoute(name, env.vars[BD_KEY], body, up, sink)

FilterPOST(body, up, sink) == EnvRoute("filter", body, up, sink)
SnapshotMetaPOST(body, up, sink) == EnvRoute("snapshot-meta", body, up, sink)
SnapshotPartsPOST(body, up, sink) == EnvRoute("snapshot-parts", body, up, sink)
SnapshotDownloadPOST(body, up, sink) == EnvRoute("snapshot-download", body, up, sink)
MetadataGET(body, up, sink) == EnvRoute("metadata", body, up, sink)
DeepLookupPOST(body, up, sink) == EnvRoute("deep-lookup", body, up, sink)
ScraperPOST(body, up, sink) == EnvRoute("scraper", body, up, sink)

\* unlocker/route.ts:34-103 and mcp/route.ts:16-80 read their own settings.
UnlockerPOST(body, up, sink) ==
    ConfRoute("unlocker",
              AndAlso(AndAlso(env.BRIGHTDATA_PROXY_HOST, env.BRIGHTDATA_PROXY_PORT),
                      AndAlso(env.BRIGHTDATA_PROXY_USER, env.BRIGHTDATA_PROXY_PASS)),
              body, up, sink)
McpPOST(body, up, sink) ==
    ConfRoute("mcp", AndAlso(env.BRIGHTDATA_MCP_URL, env.BRIGHTDATA_MCP_TOKEN), body, up, sink)

\* getSecret(BD_PATH, BD_KEY) as a step of a handler: a hit or a miss.
AskToken(login, read, dt) ==
    \/ GetSecretHit(BD_PATH, BD_KEY)
    \/ GetSecretMiss(BD_PATH, BD_KEY, login, read, dt)

\* part_001:26-136.  getSecret is called only once snapshot_id has passed.
DeliverSnapshotPOST(body, login, read, dt, up, sink) ==
    IF ~Truthy(ParseOrEmpty(body).id)
    THEN /\ route = NoRoute
         /\ route' = Handled("deliver-snapshot", body, Undefined, FALSE, up, Sink(sink),
                             deliverSnapshotPOST(body, Undefined, up, Sink(sink)))
         /\ UNCHANGED <<CACHE_TTL_MS, env, cache, now, origin, last, ncalls, nticks, calls>>
    ELSE /\ route = NoRoute
         /\ AskToken(login, read, dt)
         /\ route' = Handled("deliver-snapshot", body, last'.result, TRUE, up, Sink(sink),
                             deliverSnapshotPOST(body, last'.result, up, Sink(sink)))
         /\ UNCHANGED calls

\* brightdata-datasets.ts:88-138
FetchBrightData(body, login, read, dt, up, sink) ==
    /\ route = NoRoute
    /\ AskToken(login, read, dt)
    /\ route' = Handled("fetchBrightData", body, last'.result, TRUE, up, Sink(sink),
                        fetchBrightData(body, last'.result, up, Sink(sink)))
    /\ UNCHANGED calls

\* brightdata-datasets.ts:65-73.  The payload object after the call: `out` is
\* a copy ({ ...payload }) and every assignment is to `out`.
PayloadAfter(payload, opts) == payload

\* brightdata-datasets.ts:62-74
ApplyDryRunGuard(payload, opts) ==
    /\ route = NoRoute
    /\ route' = Guarded(payload, PayloadAfter(payload, opts), opts,
                        applyDryRunGuard(payload, opts))
    /\ UNCHANGED <<CACHE_TTL_MS, env, cache, now, origin, last, ncalls, nticks, calls>>

InitProxy ==
    /\ CACHE_TTL_MS = DEFAULT_TTL_MS
    /\ env \in ProxyEnvironments
    /\ cache = EmptyMap
    /\ origin = EmptyMap
    /\ now = 0
    /\ last = Idle("init", {})
    /\ ncalls = 0
    /\ nticks = 0
    /\ calls = NoCalls
    /\ route = NoRoute

SinkInputs == IF SupabaseConfigured THEN Sinks ELSE {"ok"}

NextProxy ==
    \/ route = NoRoute /\ GetSecretHit(BD_PATH, BD_KEY) /\ UNCHANGED <<calls, route>>
    \/ \E read \in ReadInputs(NoLogin, ProxyReads), dt \in DelayInputs(NoLogin) :
          /\ route = NoRoute
          /\ GetSecretMiss(BD_PATH, BD_KEY, NoLogin, read, dt)
          /\ UNCHANGED <<calls, route>>
    \/ \E body \in Bodies({Undefined}, Limits), up \in UpResps, sink \in SinkInputs :
          FilterPOST(body, up, sink)
    \/ \E body \in Bodies({Undefined, JStr("s1")}, {Undefined}), up \in UpResps, sink \in SinkInputs :
          SnapshotMetaPOST(body, up, sink)
    \/ \E body \in Bodies({Undefined, JStr("s1")}, {Undefined}), up \in UpResps, sink \in SinkInputs :
          SnapshotPartsPOST(body, up, sink)
    \/ \E body \in Bodies({Undefined, JStr("s1")}, {Undefined}), up \in UpResps, sink \in SinkInputs :
          SnapshotDownloadPOST(body, up, sink)
    \/ \E body \in Bodies({Undefined, JStr("d1")}, {Undefined}), up \in UpResps, sink \in SinkInputs :
          body.json /\ MetadataGET(body, up, sink)
    \/ \E body \in Bodies({Undefined, JStr("q1")}, {Undefined}), up \in UpResps, sink \in SinkInputs :
          DeepLookupPOST(body, up, sink)
    \/ \E body \in Bodies({Undefined, JStr("e1")}, {Undefined, JNum(5)}), up \in UpResps,
          sink \in SinkInputs :
          ScraperPOST(body, up, sink)
    \/ \E body \in Bodies({Undefined, JStr("u1")}, {Undefined}), up \in UpResps, sink \in SinkInputs :
          UnlockerPOST(body, up, sink)
    \/ \E body \in Bodies({Undefined, JStr("t1")}, {Undefined}), up \in UpResps, sink \in SinkInputs :
          McpPOST(body, up, sink)
    \/ \E body \in Bodies({Undefined, JStr("s1")}, {Undefined}), read \in ReadInputs(NoLogin, ProxyReads),
          dt \in DelayInputs(NoLogin), up \in UpResps, sink \in SinkInputs :
          DeliverSnapshotPOST(body, NoLogin, read, dt, up, sink)
    \/ \E body \in Bodies({Undefined}, {Undefined, JNum(5)}), read \in ReadInputs(NoLogin, ProxyReads),
          dt \in DelayInputs(NoLogin), up \in UpResps, sink \in SinkInputs :
          FetchBrightData(body, NoLogin, read, dt, up, sink)
    \/ \E payload \in Payloads, opts \in GuardOpts : ApplyDryRunGuard(payload, opts)

SpecProxy == InitProxy /\ [][NextProxy]_vars

Proxied == route.name \in EnvRoutes \cup {"deliver-snapshot", "fetchBrightData", "unlocker", "mcp"}
DryRun == route.body.json /\ Truthy(route.body.dryRun)
Endpoints == {route.sent[i].endpoint : i \in DOMAIN route.sent}

\* C13: whatever the logging sink does (getSupabaseClient throws, the insert
\* returns an error, the insert rejects), a proxy call sends the same request
\* and returns the same status and body as when the log record is written;
\* and logBrightDataInteraction returns {ok: false} on an insert error
\* instead of throwing.
C13_LoggingNeverChangesAnswer ==
    Proxied
        => /\ LET h == Handle(route.name, route.body, route.token, route.up, "ok")
              IN  /\ route.status = h.status /\ route.answer = h.body
                  /\ route.threw = h.threw /\ route.sent = h.sent
           /\ \A i \in DOMAIN route.logs :
                 (route.logs[i].called /\ route.sb = "error")
                    => (~route.logs[i].threw /\ ~route.logs[i].ok)

C13_Witness ==
    /\ route.name = "deliver-snapshot" /\ route.sb = "reject"
    /\ route.sent # <<>> /\ route.status = 404 /\ route.answer.from = "upstream"
    /\ \E i \in DOMAIN route.logs : route.logs[i].threw

\* C14, as stated: a request with dryRun set makes deliver-snapshot send
\* nothing to the deliver endpoint and answer 200 with the simulated body
\* (delivered = false), and makes snapshot-download send requests to the
\* meta endpoint only.
C14_Original ==
    /\ (route.name = "deliver-snapshot" /\ DryRun)
          => ("deliver" \notin Endpoints /\ route.status = 200 /\ route.answer = Simulated)
    /\ (route.name = "snapshot-download" /\ DryRun) => Endpoints \subseteq {"meta"}

\* C14, amended: a request with dryRun set makes deliver-snapshot send no
\* request at all; it answers 400 without snapshot_id, 500 when getSecret
\* yields no token, and otherwise 200 with the simulated body (delivered =
\* false).  It makes snapshot-download send one request, to the meta
\* endpoint, when the token and snapshot_id are present, and none otherwise.
C14_DryRunSkipsCostlyCall ==
    /\ (route.name = "deliver-snapshot" /\ DryRun)
          => /\ route.sent = <<>>
             /\ ~Truthy(route.body.id) => route.status = 400
             /\ (Truthy(route.body.id) /\ ~Truthy(route.token)) => route.status = 500
             /\ (Truthy(route.body.id) /\ Truthy(route.token))
                   => (route.status = 200 /\ route.answer = Simulated /\ ~route.answer.delivered)
    /\ (route.name = "snapshot-download" /\ DryRun)
          => /\ Endpoints \subseteq {"meta"}
             /\ Len(route.sent) = IF Truthy(route.body.id) /\ Truthy(route.token) THEN 1 ELSE 0

C14_Witness ==
    /\ route.name = "deliver-snapshot" /\ DryRun /\ route.token = JStr("bd-vault")
    /\ route.sent = <<>> /\ route.status = 200 /\ route.answer = Simulated

\* C15: with dryRun true the limit sent upstream is 1: the limit of
\* applyDryRunGuard(payload, {dryRun: true}) is 1 for every payload, and the
\* payload the filter route forwards has limit 1.
C15_DryRunForcesLimitOne ==
    /\ (route.name = "applyDryRunGuard" /\ Truthy(Get(route.opts, "dryRun")))
          => Get(route.out, "limit") = JNum(1)
    /\ (route.name = "filter" /\ DryRun /\ route.sent # <<>>)
          => route.sent[1].limit = JNum(1)

\* C16: with no Bright Data token (process.env.BRIGHTDATA_API_TOKEN unset or
\* empty for the routes that read it, getSecret returning null or "" for
\* deliver-snapshot and fetchBrightData) no request is sent upstream: the
\* routes that read the environment answer 400, deliver-snapshot answers
\* 500, fetchBrightData throws.
C16_NoTokenNoRequest ==
    /\ (route.name \in EnvRoutes /\ ~Truthy(route.token))
          => (route.sent = <<>> /\ route.status = 400)
    /\ (route.name = "deliver-snapshot" /\ ~Truthy(route.token))
          => /\ route.sent = <<>>
             /\ route.asked => route.status = 500
    /\ (route.name = "fetchBrightData" /\ ~Truthy(route.token))
          => (route.sent = <<>> /\ route.threw)

C16_Witness ==
    /\ route.name = "deliver-snapshot" /\ route.asked /\ route.token = JStr("")
    /\ route.sent = <<>> /\ route.status = 500

\* The routes that require a field of the request, and whether the request
\* lacks it.
RequiringRoutes ==
    {"snapshot-meta", "snapshot-parts", "snapshot-download", "deliver-snapshot",
     "metadata", "deep-lookup", "scraper", "unlocker", "mcp"}
MissingField ==
    IF route.name = "mcp"
    THEN route.body.id = Undefined /\ route.body.dryRun = Undefined /\ route.body.limit = Undefined
    ELSE ~Truthy(route.body.id)
TwoHundreds(status) == status >= 200 /\ status < 300

\* C21: in every route and in fetchBrightData, a request for which an upstream
\* call was attempted has the logging block entered exactly once before the
\* response is returned, whether the upstream call returned a status or threw
\* (network error).
C21_EveryInteractionLogged ==
    (Proxied /\ route.sent # <<>>) => Len(route.logs) = 1

\* C22: a request missing its required field (snapshot_id, dataset_id, query,
\* endpoint, url, a non-empty task body) is answered 400 with no upstream
\* call, no log insert and, in deliver-snapshot, no call of getSecret.
C22_ValidationBeforeIO ==
    (route.name \in RequiringRoutes /\ MissingField)
        => /\ route.status = 400
           /\ route.sent = <<>>
           /\ route.logs = <<>>
           /\ ~route.asked

\* C23: for every upstream status s, fetchBrightData returns status s and a
\* route handling a request without dryRun responds with status s, and the
\* log record of the call has status "ok" exactly when 200 <= s < 300 and
\* "error" otherwise.
C23_UpstreamPassedThrough ==
    (Proxied /\ ~DryRun /\ route.up.kind = "ok")
        => /\ ~route.threw
           /\ route.status = route.up.status
           /\ \A i \in DOMAIN route.logs :
                 route.logs[i].status = IF TwoHundreds(route.up.status) THEN "ok" ELSE "error"

\* C24: applyDryRunGuard leaves the payload it is given as it was and returns
\* an object whose fields other than limit are those of the payload; with
\* dryRun false, a numeric softCap (0 included) and a limit in the payload the
\* returned limit is min(limit, softCap); with dryRun false and no softCap,
\* or no limit in the payload, the returned object equals the payload.
C24_GuardFrameAndSoftCap ==
    route.name = "applyDryRunGuard"
        => LET limit == Get(route.given, "limit")
               softCap == Get(route.opts, "softCap")
               dryRun == Truthy(Get(route.opts, "dryRun"))
           IN  /\ route.payload = route.given
               /\ DOMAIN route.out.f \ {"limit"} = DOMAIN route.given.f \ {"limit"}
               /\ \A k \in DOMAIN route.given.f \ {"limit"} : route.out.f[k] = route.given.f[k]
               /\ (~dryRun /\ softCap.t = "number" /\ limit # Undefined)
                     => Get(route.out, "limit") = MathMin(limit, softCap)
               /\ (~dryRun /\ (softCap = Undefined \/ limit = Undefined))
                     => route.out = route.given

====
